---- MODULE Spec2Model ----
(***************************************************************************)
(* A model of SceneManager (Source/SceneManager.cpp): the texture registry *)
(* (m_textureIDs, m_loadedTextures), the material table                    *)
(* (m_objectMaterials), the shader-state setters, the transform composer   *)
(* and PrepareScene.  OpenGL, the shader manager, the mesh provider and    *)
(* the image decoder are modelled by the state they keep for the scene     *)
(* manager: generated texture names, texture-unit bindings, uniform        *)
(* values, loaded meshes and decoded image buffers.                        *)
(*                                                                         *)
(* Floating-point colours and intensities are written in hundredths        *)
(* (1.0f is 100); shininess and geometry are written as integers.          *)
(***************************************************************************)
EXTENDS Integers, Sequences, FiniteSets, TLC

VARIABLES
    m_loadedTextures,   \* int m_loadedTextures
    m_textureIDs,       \* TEXTURE_INFO m_textureIDs[16] and the memory that follows it
    m_objectMaterials,  \* std::vector<OBJECT_MATERIAL>
    m_basicMeshes,      \* the mesh kinds ShapeMeshes has loaded
    glNames,            \* number of texture names glGenTextures has handed out
    glActiveUnit,       \* the unit selected by glActiveTexture
    glBoundTex,         \* unit -> texture name bound to GL_TEXTURE_2D (0: none)
    liveImages,         \* decoded image buffers not yet given to stbi_image_free
    shader,             \* uniform name -> value last uploaded
    prepares,           \* number of PrepareScene calls so far
    loadLog,            \* history: <<tag, ID>> of every CreateGLTexture that returned true
    m_pShaderManager,   \* ShaderManager* m_pShaderManager: "shader", or "NULL" once destroyed
    frame,              \* the calls the last RenderScene made on the shader and the meshes
    lastCall            \* the last call made on the scene manager, and what it returned

vars == <<m_loadedTextures, m_textureIDs, m_objectMaterials, m_basicMeshes,
          glNames, glActiveUnit, glBoundTex, liveImages, shader, prepares,
          loadLog, m_pShaderManager, frame, lastCall>>

-----------------------------------------------------------------------------
(* Sizes *)

\* The number of elements of m_textureIDs ("There are up to 16 slots").
MaxTextures == 16

\* How many records past the end of m_textureIDs the model keeps track of.
PastEnd == 1

\* Bound on the decodable loads of the general specification.
MaxLoads == 3

\* Bound on the number of PrepareScene calls.
MaxPrepares == 1

MemSlots == MaxTextures + PastEnd

\* Texture units of the GL context: one for every slot the model can reach.
Units == 0 .. (MemSlots - 1)

-----------------------------------------------------------------------------
(* Inputs *)

\* Tags the callers use for textures.
Tags == {"wood", "white", "nonexistent"}

\* The tags of the capacity specification.
FillTags == {"wood", "white"}

\* What stbi_load can return for a file: no image, or an image with 1..4
\* channels.
NoImage == [ok |-> FALSE, channels |-> 0]

DecodeResults == {NoImage} \cup {[ok |-> TRUE, channels |-> c] : c \in 1 .. 4}

Decodable == {[ok |-> TRUE, channels |-> c] : c \in {3, 4}}

\* A default-constructed TEXTURE_INFO.
NoEntry == [tag |-> "", ID |-> 0]

\* What a read of memory past the end of m_textureIDs can yield.
JunkEntries == {[tag |-> t, ID |-> 0] : t \in FillTags \cup {""}}

\* A store past the end of the array is undefined behaviour: the record reads
\* back as written, or as something else.
OutOfBounds ==
    {[lands |-> TRUE, rec |-> NoEntry]} \cup {[lands |-> FALSE, rec |-> j] : j \in JunkEntries}

NoCall == [op |-> "none", tag |-> "", ok |-> FALSE, ret |-> 0, uploaded |-> {}, args |-> <<>>]

Call(op, tag, ok, ret, uploaded, args) ==
    [op |-> op, tag |-> tag, ok |-> ok, ret |-> ret, uploaded |-> uploaded, args |-> args]

-----------------------------------------------------------------------------
(* Texture registry *)

\* The part of the state CreateGLTexture and BindGLTextures work on.
Registry ==
    [ids |-> m_textureIDs, n |-> m_loadedTextures, names |-> glNames,
     active |-> glActiveUnit, bound |-> glBoundTex, images |-> liveImages]

\* m_textureIDs[index] = rec, for an index inside or outside the array.
StoreEntry(ids, index, rec, ub) ==
    IF index < MaxTextures
    THEN [ids EXCEPT ![index] = rec]
    ELSE [ids EXCEPT ![index] = IF ub.lands THEN rec ELSE ub.rec]

\* CreateGLTexture registering the texture before it looks at the channels.
CreateGLTextureEager(r, image, tag, ub) ==
    IF image.ok
    THEN LET textureID == r.names + 1
             gen == [r EXCEPT !.names = textureID, !.bound[r.active] = textureID,
                              !.images = @ + 1,
                              !.ids = StoreEntry(r.ids, r.n, [tag |-> tag, ID |-> textureID], ub),
                              !.n = r.n + 1]
         IN  IF image.channels \in {3, 4}
             THEN [ret |-> TRUE, reg |-> [gen EXCEPT !.images = @ - 1, !.bound[r.active] = 0]]
             ELSE [ret |-> FALSE, reg |-> gen]
    ELSE [ret |-> FALSE, reg |-> r]

\* CreateGLTexture(filename, tag) on registry r, where stbi_load returned
\* `image`; ub is the outcome of the store when it falls outside the array.
CreateGLTextureOn(r, image, tag, ub) ==
    IF image.ok
    THEN LET textureID == r.names + 1                                 \* glGenTextures
             gen == [r EXCEPT !.names = textureID,
                              !.bound[r.active] = textureID,           \* glBindTexture
                              !.images = @ + 1]
         IN  IF image.channels \in {3, 4}
             THEN [ret |-> TRUE,
                   reg |-> [gen EXCEPT
                              !.images = @ - 1,                        \* stbi_image_free
                              !.bound[r.active] = 0,                   \* glBindTexture(.., 0)
                              !.ids = StoreEntry(r.ids, r.n,
                                                 [tag |-> tag, ID |-> textureID], ub),
                              !.n = r.n + 1]]
             ELSE [ret |-> FALSE, reg |-> gen]                         \* "Not implemented ..."
    ELSE [ret |-> FALSE, reg |-> r]                                    \* "Could not load image"

RECURSIVE BindFrom(_, _)
BindFrom(r, i) ==
    IF i < r.n
    THEN BindFrom([r EXCEPT !.active = i, !.bound[i] = r.ids[i].ID], i + 1)
    ELSE r

\* BindGLTextures without the glActiveTexture call.
BindGLTexturesOneUnit(r) ==
    IF r.n > 0 THEN [r EXCEPT !.bound[r.active] = r.ids[r.n - 1].ID] ELSE r

\* BindGLTextures() on registry r.
BindGLTexturesOn(r) == BindFrom(r, 0)

RECURSIVE ScanID(_, _, _, _)
ScanID(ids, n, tag, index) ==
    IF index < n
    THEN IF ids[index].tag = tag THEN ids[index].ID ELSE ScanID(ids, n, tag, index + 1)
    ELSE -1

RECURSIVE ScanSlot(_, _, _, _)
ScanSlot(ids, n, tag, index) ==
    IF index < n
    THEN IF ids[index].tag = tag THEN index ELSE ScanSlot(ids, n, tag, index + 1)
    ELSE -1

RECURSIVE ScanLastSlot(_, _, _, _)
ScanLastSlot(ids, n, tag, index) ==
    IF index < n
    THEN LET later == ScanLastSlot(ids, n, tag, index + 1)
         IN  IF later # -1 THEN later ELSE IF ids[index].tag = tag THEN index ELSE -1
    ELSE -1

\* FindTextureSlot keeping the last match instead of stopping at the first.
FindTextureSlotLast(ids, n, tag) == ScanLastSlot(ids, n, tag, 0)

\* FindTextureSlot numbering the slots from one.
FindTextureSlotOneBased(ids, n, tag) ==
    LET slot == ScanSlot(ids, n, tag, 0) IN IF slot = -1 THEN -1 ELSE slot + 1

\* FindTextureID(tag) and FindTextureSlot(tag) on a registry.
FindTextureID(ids, n, tag) == ScanID(ids, n, tag, 0)

FindTextureSlot(ids, n, tag) == ScanSlot(ids, n, tag, 0)

-----------------------------------------------------------------------------
(* Material table *)

Material(tag, diffuse, specular, shininess) ==
    [tag |-> tag, diffuseColor |-> diffuse, specularColor |-> specular,
     shininess |-> shininess]

\* The five materials DefineObjectMaterials pushes, in order.
SceneMaterials ==
    << Material("woodMat", <<100, 100, 100>>, <<30, 30, 30>>, 32),
       Material("blackWoodMat", <<100, 100, 100>>, <<20, 20, 20>>, 16),
       Material("blackMetalMat", <<100, 100, 100>>, <<50, 50, 50>>, 64),
       Material("monitorScreenMat", <<100, 100, 100>>, <<100, 100, 100>>, 64),
       Material("whiteMat", <<100, 100, 100>>, <<50, 50, 50>>, 1) >>

\* DefineObjectMaterials() on a material list.
DefineObjectMaterialsOn(mats) == mats \o SceneMaterials

MaterialTags == {SceneMaterials[i].tag : i \in 1 .. Len(SceneMaterials)} \cup {"nonexistent"}

\* The values `OBJECT_MATERIAL material;` can hold before anything is stored
\* in it: zeroes, what an earlier call left on the stack, or anything else.
IndeterminateMaterials ==
    {Material("", <<0, 0, 0>>, <<0, 0, 0>>, 0), Material("", <<7, 8, 9>>, <<-1, 0, 1>>, -5)}
        \cup {[SceneMaterials[i] EXCEPT !.tag = ""] : i \in 1 .. Len(SceneMaterials)}

RECURSIVE ScanMaterial(_, _, _, _)
ScanMaterial(mats, tag, material, index) ==
    IF index <= Len(mats)
    THEN IF mats[index].tag = tag
         THEN [found |-> TRUE,
               material |-> [material EXCEPT !.diffuseColor = mats[index].diffuseColor,
                                             !.specularColor = mats[index].specularColor,
                                             !.shininess = mats[index].shininess]]
         ELSE ScanMaterial(mats, tag, material, index + 1)
    ELSE [found |-> FALSE, material |-> material]

\* FindMaterial(tag, material): the return value and the out-parameter.
FindMaterial(mats, tag, material) ==
    IF Len(mats) = 0
    THEN [ret |-> FALSE, material |-> material]
    ELSE [ret |-> TRUE, material |-> ScanMaterial(mats, tag, material, 1).material]

-----------------------------------------------------------------------------
(* Shader uniforms *)

MaterialUniforms == {"material.diffuseColor", "material.specularColor", "material.shininess"}

PointLights == 0 .. 4

ZeroMat == << <<0, 0, 0, 0>>, <<0, 0, 0, 0>>, <<0, 0, 0, 0>>, <<0, 0, 0, 0>> >>

\* The uniforms of a freshly linked program: every value is zero.
InitialShader ==
    [model |-> ZeroMat,
     objectColor |-> <<0, 0, 0, 0>>,
     objectTexture |-> 0,
     bUseTexture |-> 0,
     UVscale |-> <<0, 0>>,
     diffuseColor |-> <<0, 0, 0>>,
     specularColor |-> <<0, 0, 0>>,
     shininess |-> 0,
     bUseLighting |-> FALSE,
     directionalLight |-> [direction |-> <<0, 0, 0>>, ambient |-> <<0, 0, 0>>,
                           diffuse |-> <<0, 0, 0>>, specular |-> <<0, 0, 0>>,
                           bActive |-> FALSE],
     pointPosition |-> [i \in PointLights |-> <<0, 0, 0>>],
     pointAmbient |-> [i \in PointLights |-> <<0, 0, 0>>],
     pointDiffuse |-> [i \in PointLights |-> <<0, 0, 0>>],
     pointSpecular |-> [i \in PointLights |-> <<0, 0, 0>>],
     pointActive |-> [i \in PointLights |-> FALSE],
     pointActiveUploaded |-> {}]

\* SetupSceneLights() on the uniforms.
SetupSceneLightsOn(sh) ==
    [sh EXCEPT
       !.bUseLighting = TRUE,
       !.directionalLight = [direction |-> <<-20, -100, -30>>, ambient |-> <<10, 10, 10>>,
                             diffuse |-> <<60, 60, 60>>, specular |-> <<80, 80, 80>>,
                             bActive |-> TRUE],
       !.pointPosition[0] = <<0, 1200, 0>>,
       !.pointAmbient[0] = <<5, 5, 5>>,
       !.pointDiffuse[0] = <<60, 60, 60>>,
       !.pointSpecular[0] = <<80, 80, 80>>,
       !.pointActive = [i \in PointLights |-> i = 0],
       !.pointActiveUploaded = PointLights]

\* SetShaderMaterial(materialTag) on the uniforms; `material` is the local
\* variable as it is before FindMaterial is called.
SetShaderMaterialOn(sh, mats, materialTag, material) ==
    IF Len(mats) > 0
    THEN LET found == FindMaterial(mats, materialTag, material)
         IN  IF found.ret
             THEN [uploaded |-> MaterialUniforms,
                   shader |-> [sh EXCEPT !.diffuseColor = found.material.diffuseColor,
                                         !.specularColor = found.material.specularColor,
                                         !.shininess = found.material.shininess]]
             ELSE [uploaded |-> {}, shader |-> sh]
    ELSE [uploaded |-> {}, shader |-> sh]

\* SetShaderTexture(textureTag) on the uniforms.
SetShaderTextureOn(sh, ids, n, textureTag) ==
    [sh EXCEPT !.bUseTexture = 1, !.objectTexture = FindTextureSlot(ids, n, textureTag)]

\* SetShaderColor(r, g, b, a) on the uniforms.
SetShaderColorOn(sh, color) == [sh EXCEPT !.bUseTexture = 0, !.objectColor = color]

\* SetTextureUVScale(u, v) on the uniforms.
SetTextureUVScaleOn(sh, u, v) == [sh EXCEPT !.UVscale = <<u, v>>]

-----------------------------------------------------------------------------
(* Transform composer *)

\* Matrices are 4x4, row-major: M[i][j] is row i, column j.
Identity == << <<1, 0, 0, 0>>, <<0, 1, 0, 0>>, <<0, 0, 1, 0>>, <<0, 0, 0, 1>> >>

Dot(A, B, i, j) ==
    A[i][1] * B[1][j] + A[i][2] * B[2][j] + A[i][3] * B[3][j] + A[i][4] * B[4][j]

MatRow(A, B, i) == <<Dot(A, B, i, 1), Dot(A, B, i, 2), Dot(A, B, i, 3), Dot(A, B, i, 4)>>

MatMul(A, B) == <<MatRow(A, B, 1), MatRow(A, B, 2), MatRow(A, B, 3), MatRow(A, B, 4)>>

\* glm::radians(degrees): degrees * pi / 180, kept as the fraction of pi.
Radians(degrees) == [num |-> degrees, den |-> 180]

\* Cosine and sine of an angle that is a whole number of quarter turns.
QuarterTurns(angle) == ((2 * angle.num) \div angle.den) % 4

Cos(angle) == LET q == QuarterTurns(angle) IN IF q = 0 THEN 1 ELSE IF q = 2 THEN -1 ELSE 0

Sin(angle) == LET q == QuarterTurns(angle) IN IF q = 1 THEN 1 ELSE IF q = 3 THEN -1 ELSE 0

\* glm::scale(v)
GlmScale(v) ==
    << <<v[1], 0, 0, 0>>, <<0, v[2], 0, 0>>, <<0, 0, v[3], 0>>, <<0, 0, 0, 1>> >>

\* glm::translate(v)
GlmTranslate(v) ==
    << <<1, 0, 0, v[1]>>, <<0, 1, 0, v[2]>>, <<0, 0, 1, v[3]>>, <<0, 0, 0, 1>> >>

\* glm::rotate(angle, axis) for the three coordinate axes.
GlmRotateX(angle) ==
    LET c == Cos(angle) s == Sin(angle)
    IN  << <<1, 0, 0, 0>>, <<0, c, -s, 0>>, <<0, s, c, 0>>, <<0, 0, 0, 1>> >>

GlmRotateY(angle) ==
    LET c == Cos(angle) s == Sin(angle)
    IN  << <<c, 0, s, 0>>, <<0, 1, 0, 0>>, <<-s, 0, c, 0>>, <<0, 0, 0, 1>> >>

GlmRotateZ(angle) ==
    LET c == Cos(angle) s == Sin(angle)
    IN  << <<c, -s, 0, 0>>, <<s, c, 0, 0>>, <<0, 0, 1, 0>>, <<0, 0, 0, 1>> >>

\* The composer multiplying the rotations as X, Y, Z instead of Z, Y, X.
ModelViewXYZ(scaleXYZ, XrotationDegrees, YrotationDegrees, ZrotationDegrees, positionXYZ) ==
    LET scale == GlmScale(scaleXYZ)
        rotationX == GlmRotateX(Radians(XrotationDegrees))
        rotationY == GlmRotateY(Radians(YrotationDegrees))
        rotationZ == GlmRotateZ(Radians(ZrotationDegrees))
        translation == GlmTranslate(positionXYZ)
    IN  MatMul(MatMul(MatMul(MatMul(translation, rotationX), rotationY), rotationZ), scale)

\* The matrix SetTransformations uploads to "model".
ModelView(scaleXYZ, XrotationDegrees, YrotationDegrees, ZrotationDegrees, positionXYZ) ==
    LET scale == GlmScale(scaleXYZ)
        rotationX == GlmRotateX(Radians(XrotationDegrees))
        rotationY == GlmRotateY(Radians(YrotationDegrees))
        rotationZ == GlmRotateZ(Radians(ZrotationDegrees))
        translation == GlmTranslate(positionXYZ)
    IN  MatMul(MatMul(MatMul(MatMul(translation, rotationZ), rotationY), rotationX), scale)

\* Angles whose sine and cosine are whole numbers.
WholeTurns(degrees) == degrees % 90 = 0

\* The value of the "model" uniform: the product when it has whole entries,
\* else the product left as its factors, in multiplication order.
ModelUniform(scaleXYZ, XrotationDegrees, YrotationDegrees, ZrotationDegrees, positionXYZ) ==
    IF WholeTurns(XrotationDegrees) /\ WholeTurns(YrotationDegrees)
           /\ WholeTurns(ZrotationDegrees)
    THEN ModelView(scaleXYZ, XrotationDegrees, YrotationDegrees, ZrotationDegrees,
                   positionXYZ)
    ELSE [translation |-> positionXYZ, rotationZ |-> ZrotationDegrees,
          rotationY |-> YrotationDegrees, rotationX |-> XrotationDegrees,
          scale |-> scaleXYZ]

\* SetTransformations(...) on the uniforms; m_pShaderManager is not NULL.
SetTransformationsOn(sh, scaleXYZ, rx, ry, rz, positionXYZ) ==
    [sh EXCEPT !.model = ModelUniform(scaleXYZ, rx, ry, rz, positionXYZ)]

-----------------------------------------------------------------------------
(* PrepareScene *)

\* The CreateGLTexture calls of PrepareScene, in order: <<filename, tag>>.
PrepareLoads ==
    << <<"textures/wood_texture.jpg", "wood">>,
       <<"textures/black_wood_texture.jpg", "black_wood">>,
       <<"textures/black_brushed_metal_texture.jpg", "black_metal">>,
       <<"textures/snhu_one.jpg", "monitor_screen">>,
       <<"textures/white_texture.jpg", "white">> >>

SceneTags == {PrepareLoads[i][2] : i \in 1 .. Len(PrepareLoads)}

\* What the decoder returns for the five files of PrepareScene: unreadable,
\* one channel, or three channels.
PrepareImages == {NoImage, [ok |-> TRUE, channels |-> 1], [ok |-> TRUE, channels |-> 3]}

RECURSIVE LoadFrom(_, _, _, _, _, _)
LoadFrom(r, images, ub, i, rets, stopOnFailure) ==
    IF i > Len(PrepareLoads)
    THEN [reg |-> r, rets |-> rets]
    ELSE LET load == CreateGLTextureOn(r, images[i], PrepareLoads[i][2], ub)
         IN  IF stopOnFailure /\ ~load.ret
             THEN [reg |-> load.reg, rets |-> Append(rets, load.ret)]
             ELSE LoadFrom(load.reg, images, ub, i + 1, Append(rets, load.ret), stopOnFailure)

\* The texture loads giving up at the first one that fails.
PrepareTexturesAbort(r, images, ub) == LoadFrom(r, images, ub, 1, <<>>, TRUE)

\* The five CreateGLTexture calls of PrepareScene; their return values are
\* dropped by the code and kept here in rets.
PrepareTextures(r, images, ub) == LoadFrom(r, images, ub, 1, <<>>, FALSE)

-----------------------------------------------------------------------------
(* RenderScene *)

\* A statement of a render function: an assignment to one of the five
\* transformation variables, or a call with its argument.
Assign(var, val) == [op |-> "set", var |-> var, val |-> val]

Invoke(op, arg) == [op |-> op, var |-> "", val |-> arg]

\* Lengths and positions are in thousandths, rotations in degrees.
\* The statements of RenderScene() after its declarations, in order.
RenderSceneBody ==
    << Assign("scaleXYZ", <<20000, 1000, 15000>>), Assign("XrotationDegrees", 0),
         Assign("YrotationDegrees", 0), Assign("ZrotationDegrees", 0),
         Assign("positionXYZ", <<0, 0, 0>>), Invoke("SetTransformations", <<>>),
         Invoke("SetShaderMaterial", "woodMat"), Invoke("SetShaderTexture", "wood"),
         Invoke("SetTextureUVScale", <<1, 1>>), Invoke("DrawPlaneMesh", <<>>),
       Assign("scaleXYZ", <<20000, 1000, 20000>>), Assign("XrotationDegrees", 90),
         Assign("YrotationDegrees", 0), Assign("ZrotationDegrees", 0),
         Assign("positionXYZ", <<0, 15000, -15000>>), Invoke("SetTransformations", <<>>),
         Invoke("SetShaderMaterial", "woodMat"), Invoke("SetShaderTexture", "wood"),
         Invoke("SetTextureUVScale", <<1, 1>>), Invoke("DrawPlaneMesh", <<>>),
       Invoke("call", "RenderDesk"),
       Invoke("call", "RenderMonitor"),
       Invoke("call", "RenderKeyboard"),
       Invoke("call", "RenderMouse") >>

\* The statements of RenderDesk() after its declarations, in order.
RenderDeskBody ==
    << Assign("scaleXYZ", <<24000, 750, 16000>>), Assign("positionXYZ", <<0, 10000, 0>>),
         Invoke("SetTransformations", <<>>), Invoke("SetShaderMaterial", "blackWoodMat"),
         Invoke("SetShaderTexture", "black_wood"), Invoke("SetTextureUVScale", <<1, 1>>),
         Invoke("DrawBoxMesh", <<>>),
       Assign("scaleXYZ", <<1250, 10000, 1250>>),
         Assign("positionXYZ", <<-9000, 5000, 0>>), Invoke("SetTransformations", <<>>),
         Invoke("SetShaderMaterial", "blackMetalMat"),
         Invoke("SetShaderTexture", "black_metal"), Invoke("SetTextureUVScale", <<1, 1>>),
         Invoke("DrawBoxMesh", <<>>),
       Assign("scaleXYZ", <<1250, 1250, 1250>>), Assign("positionXYZ", <<-8000, 9000, 0>>),
         Invoke("SetTransformations", <<>>), Invoke("SetShaderMaterial", "blackMetalMat"),
         Invoke("SetShaderTexture", "black_metal"), Invoke("SetTextureUVScale", <<1, 1>>),
         Invoke("DrawBoxMesh", <<>>),
       Assign("scaleXYZ", <<1250, 500, 12000>>), Assign("positionXYZ", <<-8000, 9500, 0>>),
         Invoke("SetTransformations", <<>>), Invoke("SetShaderMaterial", "blackMetalMat"),
         Invoke("SetShaderTexture", "black_metal"), Invoke("SetTextureUVScale", <<1, 1>>),
         Invoke("DrawBoxMesh", <<>>),
       Assign("scaleXYZ", <<1250, 500, 12000>>), Assign("positionXYZ", <<-9000, 250, 0>>),
         Invoke("SetTransformations", <<>>), Invoke("SetShaderMaterial", "blackMetalMat"),
         Invoke("SetShaderTexture", "black_metal"), Invoke("SetTextureUVScale", <<1, 1>>),
         Invoke("DrawBoxMesh", <<>>),
       Assign("scaleXYZ", <<1250, 10000, 1250>>), Assign("positionXYZ", <<9000, 5000, 0>>),
         Invoke("SetTransformations", <<>>), Invoke("SetShaderMaterial", "blackMetalMat"),
         Invoke("SetShaderTexture", "black_metal"), Invoke("SetTextureUVScale", <<1, 1>>),
         Invoke("DrawBoxMesh", <<>>),
       Assign("scaleXYZ", <<1250, 1250, 1250>>), Assign("positionXYZ", <<8000, 9000, 0>>),
         Invoke("SetTransformations", <<>>), Invoke("SetShaderMaterial", "blackMetalMat"),
         Invoke("SetShaderTexture", "black_metal"), Invoke("SetTextureUVScale", <<1, 1>>),
         Invoke("DrawBoxMesh", <<>>),
       Assign("scaleXYZ", <<1250, 500, 12000>>), Assign("positionXYZ", <<8000, 9500, 0>>),
         Invoke("SetTransformations", <<>>), Invoke("SetShaderMaterial", "blackMetalMat"),
         Invoke("SetShaderTexture", "black_metal"), Invoke("SetTextureUVScale", <<1, 1>>),
         Invoke("DrawBoxMesh", <<>>),
       Assign("scaleXYZ", <<1250, 500, 15000>>), Assign("positionXYZ", <<9000, 250, 0>>),
         Invoke("SetTransformations", <<>>), Invoke("SetShaderMaterial", "blackMetalMat"),
         Invoke("SetShaderTexture", "black_metal"), Invoke("SetTextureUVScale", <<1, 1>>),
         Invoke("DrawBoxMesh", <<>>) >>

\* The statements of RenderMonitor() after its declarations, in order.
RenderMonitorBody ==
    << Assign("scaleXYZ", <<2000, 250, 2000>>),
         Assign("positionXYZ", <<-5000, 10500, -6000>>),
         Invoke("SetTransformations", <<>>), Invoke("SetShaderMaterial", "blackMetalMat"),
         Invoke("SetShaderTexture", "black_metal"), Invoke("SetTextureUVScale", <<1, 1>>),
         Invoke("DrawBoxMesh", <<>>),
       Assign("scaleXYZ", <<500, 2000, 500>>),
         Assign("positionXYZ", <<-5000, 10750, -6000>>),
         Invoke("SetTransformations", <<>>), Invoke("SetShaderMaterial", "blackMetalMat"),
         Invoke("SetShaderTexture", "black_metal"), Invoke("SetTextureUVScale", <<1, 1>>),
         Invoke("DrawCylinderMesh", <<>>),
       Assign("scaleXYZ", <<500, 6000, 500>>),
         Assign("positionXYZ", <<-5000, 12500, -6000>>), Assign("XrotationDegrees", 0),
         Assign("YrotationDegrees", 0), Assign("ZrotationDegrees", -30),
         Invoke("SetTransformations", <<>>), Invoke("SetShaderMaterial", "blackMetalMat"),
         Invoke("SetShaderTexture", "black_metal"), Invoke("SetTextureUVScale", <<1, 1>>),
         Invoke("DrawCylinderMesh", <<>>),
       Assign("scaleXYZ", <<2000, 1000, 2000>>),
         Assign("positionXYZ", <<-1500, 17000, -5500>>), Assign("XrotationDegrees", 90),
         Assign("YrotationDegrees", 0), Assign("ZrotationDegrees", 0),
         Invoke("SetTransformations", <<>>), Invoke("SetShaderMaterial", "blackMetalMat"),
         Invoke("SetShaderTexture", "black_metal"), Invoke("SetTextureUVScale", <<1, 1>>),
         Invoke("DrawBoxMesh", <<>>),
       Assign("scaleXYZ", <<15500, 10500, 500>>),
         Assign("positionXYZ", <<0, 19000, -5000>>), Assign("XrotationDegrees", 0),
         Assign("YrotationDegrees", 0), Assign("ZrotationDegrees", 0),
         Invoke("SetTransformations", <<>>), Invoke("SetShaderMaterial", "blackMetalMat"),
         Invoke("SetShaderTexture", "black_metal"), Invoke("SetTextureUVScale", <<1, 1>>),
         Invoke("DrawBoxMesh", <<>>),
       Assign("scaleXYZ", <<15000, 10000, 250>>),
         Assign("positionXYZ", <<0, 19000, -4850>>), Invoke("SetTransformations", <<>>),
         Invoke("SetShaderMaterial", "monitorScreenMat"),
         Invoke("SetShaderTexture", "monitor_screen"),
         Invoke("SetTextureUVScale", <<1, 1>>), Invoke("DrawBoxMesh", <<>>) >>

\* The statements of RenderKeyboard() after its declarations, in order.
RenderKeyboardBody ==
    << Assign("scaleXYZ", <<10000, 250, 4000>>), Assign("positionXYZ", <<0, 10500, 0>>),
         Invoke("SetTransformations", <<>>), Invoke("SetShaderMaterial", "blackMetalMat"),
         Invoke("SetShaderTexture", "black_metal"), Invoke("SetTextureUVScale", <<1, 1>>),
         Invoke("DrawBoxMesh", <<>>),
       Invoke("for", "KeyBody") >>

\* The statements of RenderMouse() after its declarations, in order.
RenderMouseBody ==
    << Assign("scaleXYZ", <<1250, 500, 1750>>), Assign("positionXYZ", <<7000, 10500, 0>>),
         Invoke("SetTransformations", <<>>), Invoke("SetShaderMaterial", "blackMetalMat"),
         Invoke("SetShaderTexture", "black_metal"), Invoke("SetTextureUVScale", <<1, 1>>),
         Invoke("DrawBoxMesh", <<>>),
       Assign("scaleXYZ", <<1250, 750, 875>>), Assign("positionXYZ", <<7000, 10500, 450>>),
         Invoke("SetTransformations", <<>>), Invoke("SetShaderMaterial", "blackMetalMat"),
         Invoke("SetShaderTexture", "black_metal"), Invoke("SetTextureUVScale", <<1, 1>>),
         Invoke("DrawBoxMesh", <<>>),
       Assign("scaleXYZ", <<500, 750, 750>>), Assign("positionXYZ", <<6700, 10500, -450>>),
         Invoke("SetTransformations", <<>>), Invoke("SetShaderMaterial", "whiteMat"),
         Invoke("SetShaderTexture", "white"), Invoke("SetTextureUVScale", <<1, 1>>),
         Invoke("DrawBoxMesh", <<>>),
       Assign("scaleXYZ", <<500, 750, 750>>), Assign("positionXYZ", <<7300, 10500, -450>>),
         Invoke("SetTransformations", <<>>), Invoke("SetShaderMaterial", "whiteMat"),
         Invoke("SetShaderTexture", "white"), Invoke("SetTextureUVScale", <<1, 1>>),
         Invoke("DrawBoxMesh", <<>>),
       Assign("scaleXYZ", <<50, 1000, 600>>), Assign("positionXYZ", <<7000, 10500, -450>>),
         Invoke("SetTransformations", <<>>), Invoke("SetShaderMaterial", "blackMetalMat"),
         Invoke("SetShaderTexture", "black_metal"), Invoke("SetTextureUVScale", <<1, 1>>),
         Invoke("DrawBoxMesh", <<>>) >>

\* The bounds of the two key loops: j < 6, i < 17.
KeyRows == 6

KeyColumns == 17

\* The key position with i / 2 and j / 2 taken as integer divisions.
KeyPositionTruncated(i, j) ==
    <<-4000 + 1000 * (i \div 2), 10500, -1000 + 1000 * (j \div 2)>>

\* glm::vec3(-4.0f + (i / 2.0f), 10.5f, -1.0f + (j / 2.0f))
KeyPosition(i, j) == <<-4000 + (1000 * i) \div 2, 10500, -1000 + (1000 * j) \div 2>>

\* The loop body with the material, texture and UV scale calls left out.
KeyBodyHoisted(i, j) ==
    << Assign("scaleXYZ", <<350, 350, 350>>), Assign("positionXYZ", KeyPosition(i, j)),
       Invoke("SetTransformations", <<>>), Invoke("DrawBoxMesh", <<>>) >>

\* The body of the inner key loop for the indices i and j.
KeyBody(i, j) ==
    << Assign("scaleXYZ", <<350, 350, 350>>), Assign("positionXYZ", KeyPosition(i, j)),
       Invoke("SetTransformations", <<>>), Invoke("SetShaderMaterial", "whiteMat"),
       Invoke("SetShaderTexture", "white"), Invoke("SetTextureUVScale", <<1, 1>>),
       Invoke("DrawBoxMesh", <<>>) >>

Body(name) ==
    CASE name = "RenderScene" -> RenderSceneBody
      [] name = "RenderDesk" -> RenderDeskBody
      [] name = "RenderMonitor" -> RenderMonitorBody
      [] name = "RenderKeyboard" -> RenderKeyboardBody
      [] name = "RenderMouse" -> RenderMouseBody

\* The five transformation variables as every render function declares them:
\* the rotations are 0.0f, the two vectors have no initializer. i and j are
\* the counters the two for statements of RenderKeyboard declare.
FreshLocals ==
    [scaleXYZ |-> "indeterminate", XrotationDegrees |-> 0, YrotationDegrees |-> 0,
     ZrotationDegrees |-> 0, positionXYZ |-> "indeterminate", i |-> 0, j |-> 0]

DrawOps == {"DrawPlaneMesh", "DrawBoxMesh", "DrawCylinderMesh"}

\* The uniforms a draw call is shaded with.
DrawUniforms(sh) ==
    [model |-> sh.model, diffuseColor |-> sh.diffuseColor,
     specularColor |-> sh.specularColor, shininess |-> sh.shininess,
     bUseTexture |-> sh.bUseTexture, objectTexture |-> sh.objectTexture,
     UVscale |-> sh.UVscale]

\* The lighting uniforms SetupSceneLights uploads.
LightConfig(sh) ==
    [bUseLighting |-> sh.bUseLighting, directionalLight |-> sh.directionalLight,
     pointPosition |-> sh.pointPosition, pointAmbient |-> sh.pointAmbient,
     pointDiffuse |-> sh.pointDiffuse, pointSpecular |-> sh.pointSpecular,
     pointActive |-> sh.pointActive, pointActiveUploaded |-> sh.pointActiveUploaded]

\* What a render function works on: its locals, the statement it is at, the
\* uniforms, the calls issued so far, and the members of the scene manager
\* it can reach.
RenderEnv ==
    [locals |-> FreshLocals, pc |-> 1, shader |-> shader, frame |-> <<>>,
     mats |-> m_objectMaterials, ids |-> m_textureIDs, n |-> m_loadedTextures]

Issued(env, op, arg) == Append(env.frame, [op |-> op, arg |-> arg])

RECURSIVE Exec(_, _, _)
RECURSIVE Run(_, _, _)
RECURSIVE KeyRow(_, _)
RECURSIVE KeyLoop(_, _)

\* One statement; `material` is what the local of SetShaderMaterial holds
\* before FindMaterial is called.
Exec(env, st, material) ==
    CASE st.op = "set" -> [env EXCEPT !.locals[st.var] = st.val]
      [] st.op = "SetTransformations" ->
            LET l == env.locals
            IN  [env EXCEPT
                   !.shader = SetTransformationsOn(@, l.scaleXYZ, l.XrotationDegrees,
                                  l.YrotationDegrees, l.ZrotationDegrees, l.positionXYZ),
                   !.frame = Issued(env, st.op,
                                  <<l.scaleXYZ, l.XrotationDegrees, l.YrotationDegrees,
                                    l.ZrotationDegrees, l.positionXYZ>>)]
      [] st.op = "SetShaderMaterial" ->
            [env EXCEPT
               !.shader = SetShaderMaterialOn(@, env.mats, st.val, material).shader,
               !.frame = Issued(env, st.op, st.val)]
      [] st.op = "SetShaderTexture" ->
            [env EXCEPT !.shader = SetShaderTextureOn(@, env.ids, env.n, st.val),
                        !.frame = Issued(env, st.op, st.val)]
      [] st.op = "SetTextureUVScale" ->
            [env EXCEPT !.shader = SetTextureUVScaleOn(@, st.val[1], st.val[2]),
                        !.frame = Issued(env, st.op, st.val)]
      [] st.op \in DrawOps ->
            [env EXCEPT !.frame = Issued(env, st.op, DrawUniforms(env.shader))]
      [] st.op = "call" ->
            LET done == Run([env EXCEPT !.locals = FreshLocals, !.pc = 1], Body(st.val),
                            material)
            IN  [done EXCEPT !.locals = env.locals, !.pc = env.pc]
      [] st.op = "for" -> KeyLoop([env EXCEPT !.locals.j = 0], material)

\* The statements of body from the one env is at to the last.
Run(env, body, material) ==
    IF env.pc <= Len(body)
    THEN Run([Exec(env, body[env.pc], material) EXCEPT !.pc = env.pc + 1], body, material)
    ELSE env

\* for (...; i < 17; i++) { KeyBody }, from the value of i in env on.
KeyRow(env, material) ==
    IF env.locals.i < KeyColumns
    THEN LET done == Run([env EXCEPT !.pc = 1], KeyBody(env.locals.i, env.locals.j),
                         material)
         IN  KeyRow([done EXCEPT !.pc = env.pc, !.locals.i = @ + 1], material)
    ELSE env

\* for (...; j < 6; j++) { for (int i = 0; ...) }, from the value of j in
\* env on.
KeyLoop(env, material) ==
    IF env.locals.j < KeyRows
    THEN LET done == KeyRow([env EXCEPT !.locals.i = 0], material)
         IN  KeyLoop([done EXCEPT !.locals.j = @ + 1], material)
    ELSE env

\* RenderScene() that defines the materials again on every frame.
RenderSceneRedefining(env, material) ==
    Run([env EXCEPT !.mats = DefineObjectMaterialsOn(@)], RenderSceneBody, material)

\* RenderScene() on env.
RenderSceneOn(env, material) == Run(env, RenderSceneBody, material)

-----------------------------------------------------------------------------
(* Actions *)

Landed == [lands |-> TRUE, rec |-> NoEntry]

\* The outcomes of k stores starting at slot n: only a store past the end of
\* the array has more than one.
StoreOutcomes(n, k) == IF n + k <= MaxTextures THEN {Landed} ELSE OutOfBounds

SetRegistry(r) ==
    /\ m_textureIDs' = r.ids
    /\ m_loadedTextures' = r.n
    /\ glNames' = r.names
    /\ glActiveUnit' = r.active
    /\ glBoundTex' = r.bound
    /\ liveImages' = r.images

registryVars == <<m_textureIDs, m_loadedTextures, glNames, glActiveUnit, glBoundTex, liveImages>>

\* The loads of rets that returned true, as <<tag, ID>> in call order; the
\* IDs are the names glGenTextures handed out, counted from `names`.
RECURSIVE Logged(_, _, _, _)
Logged(images, rets, i, names) ==
    IF i > Len(rets)
    THEN <<>>
    ELSE LET id == names + 1
         IN  (IF rets[i] THEN << <<PrepareLoads[i][2], id>> >> ELSE <<>>)
                 \o Logged(images, rets, i + 1, IF images[i].ok THEN id ELSE names)

\* bool CreateGLTexture(filename, tag), where the decoder returned `image`.
CreateGLTexture(tag, image, ub) ==
    LET load == CreateGLTextureOn(Registry, image, tag, ub)
    IN  /\ SetRegistry(load.reg)
        /\ loadLog' = IF load.ret THEN Append(loadLog, <<tag, load.reg.names>>) ELSE loadLog
        /\ lastCall' = Call("CreateGLTexture", tag, load.ret, 0, {},
                            <<image, m_loadedTextures, m_textureIDs>>)
        /\ UNCHANGED <<m_objectMaterials, m_basicMeshes, m_pShaderManager, frame, shader, prepares>>

\* A CreateGLTexture call with any tag and any file.
Load ==
    \E tag \in Tags, image \in DecodeResults :
        \E ub \in StoreOutcomes(m_loadedTextures, 1) :
            /\ glNames < MaxLoads
            /\ CreateGLTexture(tag, image, ub)

\* A CreateGLTexture call of a run that fills the registry.
Fill ==
    \E tag \in FillTags :
        \E ub \in StoreOutcomes(m_loadedTextures, 1) :
            /\ m_loadedTextures < MemSlots
            /\ CreateGLTexture(tag, [ok |-> TRUE, channels |-> 3], ub)

\* void BindGLTextures()
BindGLTextures ==
    /\ SetRegistry(BindGLTexturesOn(Registry))
    /\ lastCall' = Call("BindGLTextures", "", TRUE, 0, {}, <<>>)
    /\ UNCHANGED <<m_objectMaterials, m_basicMeshes, m_pShaderManager, frame, shader, prepares, loadLog>>

\* int FindTextureID(tag)
LookupID ==
    \E tag \in Tags :
        /\ lastCall' = Call("FindTextureID", tag, TRUE,
                            FindTextureID(m_textureIDs, m_loadedTextures, tag), {}, <<>>)
        /\ UNCHANGED <<registryVars, m_objectMaterials, m_basicMeshes, m_pShaderManager, frame, shader, prepares, loadLog>>

\* int FindTextureSlot(tag)
LookupSlot ==
    \E tag \in Tags :
        /\ lastCall' = Call("FindTextureSlot", tag, TRUE,
                            FindTextureSlot(m_textureIDs, m_loadedTextures, tag), {}, <<>>)
        /\ UNCHANGED <<registryVars, m_objectMaterials, m_basicMeshes, m_pShaderManager, frame, shader, prepares, loadLog>>

\* void DefineObjectMaterials()
DefineObjectMaterials ==
    /\ Len(m_objectMaterials) < Len(SceneMaterials) * MaxPrepares
    /\ m_objectMaterials' = DefineObjectMaterialsOn(m_objectMaterials)
    /\ lastCall' = Call("DefineObjectMaterials", "", TRUE, 0, {}, <<>>)
    /\ UNCHANGED <<registryVars, m_basicMeshes, m_pShaderManager, frame, shader, prepares, loadLog>>

\* void SetShaderMaterial(materialTag)
SetShaderMaterial ==
    \E materialTag \in MaterialTags, material \in IndeterminateMaterials :
        LET set == SetShaderMaterialOn(shader, m_objectMaterials, materialTag, material)
        IN  /\ shader' = set.shader
            /\ lastCall' = Call("SetShaderMaterial", materialTag, TRUE, 0, set.uploaded,
                                <<shader.diffuseColor, shader.specularColor, shader.shininess>>)
            /\ UNCHANGED <<registryVars, m_objectMaterials, m_basicMeshes, m_pShaderManager, frame, prepares, loadLog>>

\* void SetShaderTexture(textureTag)
SetShaderTexture ==
    \E textureTag \in Tags :
        /\ shader' = SetShaderTextureOn(shader, m_textureIDs, m_loadedTextures, textureTag)
        /\ lastCall' = Call("SetShaderTexture", textureTag, TRUE, 0,
                            {"bUseTexture", "objectTexture"}, <<>>)
        /\ UNCHANGED <<registryVars, m_objectMaterials, m_basicMeshes, m_pShaderManager, frame, prepares, loadLog>>

Colors == {<<100, 100, 100, 100>>, <<50, 0, 0, 100>>}

\* void SetShaderColor(r, g, b, a)
SetShaderColor ==
    \E color \in Colors :
        /\ shader' = SetShaderColorOn(shader, color)
        /\ lastCall' = Call("SetShaderColor", "", TRUE, 0, {"bUseTexture", "objectColor"}, color)
        /\ UNCHANGED <<registryVars, m_objectMaterials, m_basicMeshes, m_pShaderManager, frame, prepares, loadLog>>

\* void SetTextureUVScale(u, v)
SetTextureUVScale ==
    \E u \in {1, 2}, v \in {1, 2} :
        /\ shader' = SetTextureUVScaleOn(shader, u, v)
        /\ lastCall' = Call("SetTextureUVScale", "", TRUE, 0, {"UVscale"}, <<u, v>>)
        /\ UNCHANGED <<registryVars, m_objectMaterials, m_basicMeshes, m_pShaderManager, frame, prepares, loadLog>>

Scales == {<<1, 1, 1>>, <<2, 3, 4>>}

Degrees == {0, 90, 180, -90}

Positions == {<<0, 0, 0>>, <<5, -6, 7>>}

\* void SetTransformations(scaleXYZ, Xrotation, Yrotation, Zrotation, positionXYZ)
SetTransformations ==
    \E scaleXYZ \in Scales, rx \in Degrees, ry \in Degrees, rz \in Degrees,
       positionXYZ \in Positions :
        /\ shader' = SetTransformationsOn(shader, scaleXYZ, rx, ry, rz, positionXYZ)
        /\ lastCall' = Call("SetTransformations", "", TRUE, 0, {"model"},
                            <<scaleXYZ, rx, ry, rz, positionXYZ>>)
        /\ UNCHANGED <<registryVars, m_objectMaterials, m_basicMeshes, m_pShaderManager, frame, prepares, loadLog>>

\* void PrepareScene()
PrepareScene ==
    /\ prepares < MaxPrepares
    /\ \E images \in [1 .. Len(PrepareLoads) -> PrepareImages] :
         \E ub \in StoreOutcomes(m_loadedTextures, Len(PrepareLoads)) :
            LET loaded == PrepareTextures(Registry, images, ub)
            IN  /\ m_objectMaterials' = DefineObjectMaterialsOn(m_objectMaterials)
                /\ shader' = SetupSceneLightsOn(shader)
                /\ m_basicMeshes' = m_basicMeshes \cup {"plane", "box", "cylinder"}
                /\ SetRegistry(BindGLTexturesOn(loaded.reg))
                /\ loadLog' = loadLog \o Logged(images, loaded.rets, 1, glNames)
                /\ prepares' = prepares + 1
                /\ lastCall' = Call("PrepareScene", "", TRUE, 0, {},
                                    <<images, loaded.rets, m_loadedTextures>>)
                /\ UNCHANGED <<m_pShaderManager, frame>>

\* What the local of SetShaderMaterial holds during one frame before
\* FindMaterial is called: zeroes, or something else.
FrameMaterials ==
    {Material("", <<0, 0, 0>>, <<0, 0, 0>>, 0), Material("", <<7, 8, 9>>, <<-1, 0, 1>>, -5)}

\* void RenderScene(); args keeps the texture list, the count, the material
\* list and the lighting uniforms as they were before the first of the
\* RenderScene calls made in a row.
RenderScene ==
    /\ m_pShaderManager # "NULL"
    /\ \E done \in {RenderSceneOn(RenderEnv, material) : material \in FrameMaterials} :
             /\ shader' = done.shader
             /\ frame' = done.frame
             /\ m_objectMaterials' = done.mats
             /\ m_textureIDs' = done.ids
             /\ m_loadedTextures' = done.n
             /\ lastCall' = Call("RenderScene", "", TRUE, 0, {},
                                 IF lastCall.op = "RenderScene"
                                 THEN lastCall.args
                                 ELSE <<m_textureIDs, m_loadedTextures, m_objectMaterials,
                                        LightConfig(shader)>>)
             /\ UNCHANGED <<glNames, glActiveUnit, glBoundTex, liveImages, m_basicMeshes,
                            m_pShaderManager, prepares, loadLog>>

\* The first PrepareScene call.
PrepareOnce == prepares = 0 /\ PrepareScene

-----------------------------------------------------------------------------
(* Teardown *)

RECURSIVE DestroyFrom(_, _)
DestroyFrom(r, i) ==
    IF i < r.n
    THEN DestroyFrom([r EXCEPT !.names = @ + 1, !.ids[i].ID = r.names + 1], i + 1)
    ELSE r

\* DestroyGLTextures() on registry r: glGenTextures(1, &m_textureIDs[i].ID)
\* for every i below the count.
DestroyGLTexturesOn(r) == DestroyFrom(r, 0)

\* The texture names the GL context holds: every name glGenTextures handed
\* out, since nothing in the source gives one back.
GlAllocated == 1 .. glNames

\* void DestroyGLTextures()
DestroyGLTextures ==
    /\ m_pShaderManager # "NULL"
    /\ glNames <= MaxLoads
    /\ SetRegistry(DestroyGLTexturesOn(Registry))
    /\ lastCall' = Call("DestroyGLTextures", "", TRUE, 0, {}, <<glNames, TRUE>>)
    /\ UNCHANGED <<m_objectMaterials, m_basicMeshes, m_pShaderManager, frame, shader,
                   prepares, loadLog>>

\* ~SceneManager(); args keeps the number of texture names at the start of
\* the teardown and whether DestroyGLTextures came right before.
DestroySceneManager ==
    /\ m_pShaderManager # "NULL"
    /\ m_pShaderManager' = "NULL"
    /\ m_basicMeshes' = {}
    /\ lastCall' = Call("~SceneManager", "", TRUE, 0, {},
                        IF lastCall.op = "DestroyGLTextures"
                        THEN lastCall.args
                        ELSE <<glNames, FALSE>>)
    /\ UNCHANGED <<registryVars, m_objectMaterials, frame, shader, prepares, loadLog>>

\* A CreateGLTexture call on a scene manager that has not been destroyed.
TeardownLoad == m_pShaderManager # "NULL" /\ Load

-----------------------------------------------------------------------------
(* Specifications *)

Init ==
    /\ m_loadedTextures = 0
    /\ m_textureIDs = [i \in 0 .. (MemSlots - 1) |-> NoEntry]
    /\ m_objectMaterials = <<>>
    /\ m_basicMeshes = {}
    /\ glNames = 0
    /\ glActiveUnit = 0
    /\ glBoundTex = [u \in Units |-> 0]
    /\ liveImages = 0
    /\ shader = InitialShader
    /\ prepares = 0
    /\ loadLog = <<>>
    /\ m_pShaderManager = "shader"
    /\ frame = <<>>
    /\ lastCall = NoCall

\* The texture registry under any calls of its interface.
Next == Load \/ BindGLTextures \/ LookupID \/ LookupSlot

Spec == Init /\ [][Next]_vars

\* The texture registry filled up to and past the size of m_textureIDs.
NextCap == Fill

SpecCap == Init /\ [][NextCap]_vars

\* The material table and the shader-state setters.
NextShader ==
    DefineObjectMaterials \/ SetShaderMaterial \/ SetShaderTexture \/ SetShaderColor
        \/ SetTextureUVScale

SpecShader == Init /\ [][NextShader]_vars

\* The transform composer.
NextCompose == SetTransformations

SpecCompose == Init /\ [][NextCompose]_vars

\* Scene preparation on a new scene manager.
NextScene == PrepareScene

SpecScene == Init /\ [][NextScene]_vars

\* The life of a scene manager: loads, DestroyGLTextures, the destructor.
NextTeardown == TeardownLoad \/ DestroyGLTextures \/ DestroySceneManager

SpecTeardown == Init /\ [][NextTeardown]_vars

\* The scene as the application drives it: PrepareScene once, RenderScene
\* for every frame.
NextRender == PrepareOnce \/ RenderScene

SpecRender == Init /\ [][NextRender]_vars

-----------------------------------------------------------------------------
(* Properties *)

FindID(tag) == FindTextureID(m_textureIDs, m_loadedTextures, tag)

FindSlot(tag) == FindTextureSlot(m_textureIDs, m_loadedTextures, tag)

DefinedMaterialTags == {m_objectMaterials[i].tag : i \in 1 .. Len(m_objectMaterials)}

\* C1: SetShaderMaterial with a tag no defined material has, on a non-empty
\* material table, uploads nothing and leaves the three material uniforms as
\* the previous call left them.
C1_MissUploadsNothing ==
    (/\ lastCall.op = "SetShaderMaterial"
     /\ Len(m_objectMaterials) > 0
     /\ lastCall.tag \notin DefinedMaterialTags)
        => /\ lastCall.uploaded = {}
           /\ <<shader.diffuseColor, shader.specularColor, shader.shininess>> = lastCall.args

\* C2: the registered-texture count never exceeds 16 and no record is ever
\* written at index 16 or beyond.
C2_RegistryCapped ==
    /\ m_loadedTextures <= MaxTextures
    /\ \A i \in MaxTextures .. (MemSlots - 1) : m_textureIDs[i] = NoEntry

\* C3: a CreateGLTexture whose image decodes with a channel count other than
\* 3 or 4 returns false and leaves the count and every entry as they were.
C3_BadChannelsLeaveRegistry ==
    (/\ lastCall.op = "CreateGLTexture"
     /\ lastCall.args[1].ok
     /\ lastCall.args[1].channels \notin {3, 4})
        => /\ ~lastCall.ok
           /\ m_loadedTextures = lastCall.args[2]
           /\ m_textureIDs = lastCall.args[3]

C3_Witness ==
    /\ lastCall.op = "CreateGLTexture"
    /\ lastCall.args[1].ok
    /\ lastCall.args[1].channels \in {1, 2}
    /\ m_loadedTextures >= 2

LoggedTags == {loadLog[i][1] : i \in 1 .. Len(loadLog)}

C6_PrepareSlotsInLoadOrder ==
    (/\ lastCall.op = "PrepareScene"
     /\ lastCall.args[3] = 0
     /\ \A i \in 1 .. Len(PrepareLoads) : lastCall.args[1][i] \in Decodable)
        => /\ m_loadedTextures = 5
           /\ FindSlot("wood") = 0
           /\ FindSlot("black_wood") = 1
           /\ FindSlot("black_metal") = 2
           /\ FindSlot("monitor_screen") = 3
           /\ FindSlot("white") = 4

C6_Witness ==
    /\ lastCall.op = "PrepareScene"
    /\ lastCall.args[3] = 0
    /\ \A i \in 1 .. Len(PrepareLoads) : lastCall.args[1][i] \in Decodable
    /\ m_loadedTextures = 5

\* C7: right after BindGLTextures, texture unit i is bound to the texture of
\* registry entry i for every i below the count, and so the unit
\* FindTextureSlot gives for a registered tag is bound to the texture
\* FindTextureID gives for it.
C7_BindIsPositional ==
    lastCall.op = "BindGLTextures"
        => /\ \A i \in 0 .. (m_loadedTextures - 1) : glBoundTex[i] = m_textureIDs[i].ID
           /\ \A tag \in Tags : FindSlot(tag) # -1 => glBoundTex[FindSlot(tag)] = FindID(tag)

C7_Witness ==
    /\ lastCall.op = "BindGLTextures"
    /\ m_loadedTextures >= 2
    /\ FindSlot("white") = 1

\* The tags of the loads of PrepareScene whose image is decodable, in order.
RECURSIVE OkTags(_, _)
OkTags(images, i) ==
    IF i > Len(PrepareLoads)
    THEN <<>>
    ELSE (IF images[i] \in Decodable THEN <<PrepareLoads[i][2]>> ELSE <<>>)
             \o OkTags(images, i + 1)

\* C8: when some of the five files of PrepareScene cannot be read, each of
\* those loads returns false and registers nothing, all five loads and the
\* final BindGLTextures still run, and every texture whose load succeeded is
\* registered, found by its tag and bound to its unit.
C8_PrepareSurvivesMissingFiles ==
    (/\ lastCall.op = "PrepareScene"
     /\ \A i \in 1 .. Len(PrepareLoads) : lastCall.args[1][i] \in Decodable \cup {NoImage})
        => LET images == lastCall.args[1]
               rets == lastCall.args[2]
               before == lastCall.args[3]
               ok == OkTags(images, 1)
           IN  /\ Len(rets) = Len(PrepareLoads)
               /\ \A i \in 1 .. Len(PrepareLoads) : rets[i] = images[i].ok
               /\ m_loadedTextures = before + Len(ok)
               /\ \A k \in 1 .. Len(ok) : m_textureIDs[before + k - 1].tag = ok[k]
               /\ \A k \in 1 .. Len(ok) :
                     /\ FindSlot(ok[k]) # -1
                     /\ FindID(ok[k]) # -1
                     /\ glBoundTex[FindSlot(ok[k])] = FindID(ok[k])

C8_Witness ==
    /\ lastCall.op = "PrepareScene"
    /\ lastCall.args[1][1] = NoImage
    /\ lastCall.args[1][3] = NoImage
    /\ lastCall.args[1][2] \in Decodable
    /\ lastCall.args[1][4] \in Decodable
    /\ lastCall.args[1][5] \in Decodable
    /\ FindSlot("white") = 2

LogIndices(tag) == {i \in 1 .. Len(loadLog) : loadLog[i][1] = tag}

FirstLogged(tag) == CHOOSE i \in LogIndices(tag) : \A j \in LogIndices(tag) : i <= j

-----------------------------------------------------------------------------
(* The transform a model matrix stands for, computed point by point *)

CosDeg(d) == LET a == d % 360 IN IF a = 0 THEN 1 ELSE IF a = 180 THEN -1 ELSE 0

SinDeg(d) == LET a == d % 360 IN IF a = 90 THEN 1 ELSE IF a = 270 THEN -1 ELSE 0

ScalePoint(s, p) == <<s[1] * p[1], s[2] * p[2], s[3] * p[3]>>

RotateXPoint(d, p) ==
    <<p[1], CosDeg(d) * p[2] - SinDeg(d) * p[3], SinDeg(d) * p[2] + CosDeg(d) * p[3]>>

RotateYPoint(d, p) ==
    <<CosDeg(d) * p[1] + SinDeg(d) * p[3], p[2], CosDeg(d) * p[3] - SinDeg(d) * p[1]>>

RotateZPoint(d, p) ==
    <<CosDeg(d) * p[1] - SinDeg(d) * p[2], SinDeg(d) * p[1] + CosDeg(d) * p[2], p[3]>>

TranslatePoint(t, p) == <<p[1] + t[1], p[2] + t[2], p[3] + t[3]>>

\* M applied to the point p (w = 1).
Apply(M, p) ==
    <<M[1][1] * p[1] + M[1][2] * p[2] + M[1][3] * p[3] + M[1][4],
      M[2][1] * p[1] + M[2][2] * p[2] + M[2][3] * p[3] + M[2][4],
      M[3][1] * p[1] + M[3][2] * p[2] + M[3][3] * p[3] + M[3][4]>>

\* An affine map is fixed by the images of the origin and the three unit points.
Probes == {<<0, 0, 0>>, <<1, 0, 0>>, <<0, 1, 0>>, <<0, 0, 1>>}

\* C10: the matrix SetTransformations uploads to "model" is T.Rz.Ry.Rx.S: it
\* scales a point, turns it about X, then Y, then Z, and then translates it;
\* scale (1,1,1), no rotation and no translation upload the identity.
C10_ModelIsTRzRyRxS ==
    lastCall.op = "SetTransformations"
        => LET scaleXYZ == lastCall.args[1]
               rx == lastCall.args[2]
               ry == lastCall.args[3]
               rz == lastCall.args[4]
               positionXYZ == lastCall.args[5]
           IN  /\ lastCall.uploaded = {"model"}
               /\ shader.model[4] = <<0, 0, 0, 1>>
               /\ \A p \in Probes :
                     Apply(shader.model, p)
                         = TranslatePoint(positionXYZ,
                              RotateZPoint(rz, RotateYPoint(ry, RotateXPoint(rx,
                                 ScalePoint(scaleXYZ, p)))))
               /\ (lastCall.args = << <<1, 1, 1>>, 0, 0, 0, <<0, 0, 0>> >>
                      => shader.model = Identity)

C10_Witness ==
    /\ lastCall.op = "SetTransformations"
    /\ lastCall.args = << <<2, 3, 4>>, 90, -90, 180, <<5, -6, 7>> >>
    /\ shader.model # Identity

\* C14: whenever CreateGLTexture returns after a successful decode, the
\* decoded image has been given to stbi_image_free: no image buffer stays
\* allocated, in particular when the channel count is not 3 or 4.
C14_ImageFreedOnReturn ==
    (lastCall.op = "CreateGLTexture" /\ lastCall.args[1].ok) => liveImages = 0

\* C15: once DestroyGLTextures and then the destructor have run, no texture
\* name created by a successful CreateGLTexture is still allocated and no
\* texture name has been allocated during the teardown.
C15_TeardownReleasesTextures ==
    (lastCall.op = "~SceneManager" /\ lastCall.args[2])
        => /\ \A i \in 1 .. Len(loadLog) : loadLog[i][2] \notin GlAllocated
           /\ glNames = lastCall.args[1]

\* The calls of the part-th object part of the frame: five calls a part.
PartCall(part, k) == frame[5 * (part - 1) + k]

\* The entry of the material list a tag resolves to.
DefinedMaterial(tag) ==
    m_objectMaterials[CHOOSE i \in 1 .. Len(m_objectMaterials) :
                          /\ m_objectMaterials[i].tag = tag
                          /\ \A h \in 1 .. (i - 1) : m_objectMaterials[h].tag # tag]

\* The draw of a part is shaded with what the four calls of that part set.
OwnUniforms(part) ==
    LET transform == PartCall(part, 1).arg
        drawn == PartCall(part, 5).arg
    IN  /\ drawn.model = ModelUniform(transform[1], transform[2], transform[3],
                                      transform[4], transform[5])
        /\ drawn.bUseTexture = 1
        /\ drawn.objectTexture = FindSlot(PartCall(part, 3).arg)
        /\ drawn.UVscale = PartCall(part, 4).arg
        /\ Len(m_objectMaterials) > 0 =>
              LET material == DefinedMaterial(PartCall(part, 2).arg)
              IN  /\ drawn.diffuseColor = material.diffuseColor
                  /\ drawn.specularColor = material.specularColor
                  /\ drawn.shininess = material.shininess

\* C13: the calls of a RenderScene are a row of object parts, each one
\* SetTransformations, one SetShaderMaterial, one SetShaderTexture, one
\* SetTextureUVScale and one draw, in that order; the draw is shaded with the
\* transform, texture and UV scale its own part set, and with its own
\* material once the materials are defined.
C13_PartsSetThenDraw ==
    lastCall.op = "RenderScene" =>
        /\ Len(frame) % 5 = 0
        /\ \A part \in 1 .. (Len(frame) \div 5) :
              /\ PartCall(part, 1).op = "SetTransformations"
              /\ PartCall(part, 2).op = "SetShaderMaterial"
              /\ PartCall(part, 3).op = "SetShaderTexture"
              /\ PartCall(part, 4).op = "SetTextureUVScale"
              /\ PartCall(part, 5).op \in DrawOps
              /\ OwnUniforms(part)

\* A prepared scene has been rendered: planes, boxes and cylinders drawn.
C13_Witness ==
    /\ lastCall.op = "RenderScene"
    /\ prepares > 0
    /\ \A op \in DrawOps : \E k \in 1 .. Len(frame) : frame[k].op = op

\* The draws of the frame that are keyboard keys: boxes scaled by 0.35.
KeyDraws ==
    {k \in 5 .. Len(frame) :
        /\ frame[k].op = "DrawBoxMesh"
        /\ frame[k - 4].op = "SetTransformations"
        /\ frame[k - 4].arg[1] = <<350, 350, 350>>}

\* C11: a RenderScene draws exactly 102 keyboard keys, exactly one at
\* (-4 + i/2, 10.5, -1 + j/2) for every i below 17 and j below 6, each one
\* unrotated, with material "whiteMat" and texture "white".
C11_KeyGrid ==
    lastCall.op = "RenderScene" =>
        /\ Cardinality(KeyDraws) = 102
        /\ \A i \in 0 .. 16, j \in 0 .. 5 :
              Cardinality({k \in KeyDraws :
                              frame[k - 4].arg[5] = <<-4000 + 500 * i, 10500, -1000 + 500 * j>>}) = 1
        /\ \A k \in KeyDraws :
              /\ frame[k - 4].arg[2] = 0 /\ frame[k - 4].arg[3] = 0 /\ frame[k - 4].arg[4] = 0
              /\ frame[k - 3] = [op |-> "SetShaderMaterial", arg |-> "whiteMat"]
              /\ frame[k - 2] = [op |-> "SetShaderTexture", arg |-> "white"]
              /\ frame[k].arg.model = ModelUniform(<<350, 350, 350>>, 0, 0, 0, frame[k - 4].arg[5])
              /\ frame[k].arg.objectTexture = FindSlot("white")

\* A prepared scene with the "white" texture loaded has been rendered and
\* the last key, i = 16 and j = 5, is among the draws.
C11_Witness ==
    /\ lastCall.op = "RenderScene"
    /\ FindSlot("white") >= 0
    /\ \E k \in KeyDraws : frame[k - 4].arg[5] = <<4000, 10500, 1500>>

\* C12: RenderScene leaves the texture list, the texture count, the material
\* list and the lighting uniforms as they were before the RenderScene calls
\* began, which after PrepareScene is as PrepareScene left them.
C12_RenderWritesNoSceneState ==
    lastCall.op = "RenderScene" =>
        <<m_textureIDs, m_loadedTextures, m_objectMaterials, LightConfig(shader)>>
            = lastCall.args

\* RenderScene has run on a prepared scene with five textures, the materials
\* and the lights in place, and has changed the uniforms it is meant to.
C12_Witness ==
    /\ lastCall.op = "RenderScene"
    /\ prepares > 0
    /\ m_loadedTextures = 5
    /\ Len(m_objectMaterials) = 5
    /\ shader.bUseLighting
    /\ shader.model # ZeroMat

====
